---- MODULE Spec2Model ----
(***************************************************************************)
(* hopen: lifecycle and port arbitration of a local HTTP server            *)
(* (src/src/main.rs).  The operating system (listening sockets, running    *)
(* processes, the lsof utility, the contents of the current directory) is  *)
(* the shared state; one invocation of main() is a sequence of steps over  *)
(* it.                                                                     *)
(***************************************************************************)
EXTENDS Integers, Sequences, FiniteSets, TLC

(***************************************************************************)
(* Port range.  The program scans DEFAULT_PORT..=MAX_PORT (8000..=8100).   *)
(* The scan is uniform in the length of the range, so the model keeps the  *)
(* first port and scales the length: MAX_PORT is DEFAULT_PORT + PortSpan.  *)
(***************************************************************************)
DEFAULT_PORT == 8000

PortSpan == 2

MAX_PORT == DEFAULT_PORT + PortSpan

Ports == DEFAULT_PORT..MAX_PORT

(***************************************************************************)
(* Process ids.  NoPid marks a free port.  The servers found at start-up   *)
(* own the first pids, a child left starting by an earlier run the next    *)
(* one; each invocation and its child draw from the rest.                  *)
(***************************************************************************)
NoPid == 0

MaxSlots == 2

Slots == 1..MaxSlots

Pids == 1..(PortSpan + 2 + 2 * MaxSlots)

(***************************************************************************)
(* Option and Result values of the Rust code.                              *)
(***************************************************************************)
None == [some |-> FALSE]

Some(x) == [some |-> TRUE, val |-> x]

Ok(x) == [ok |-> TRUE, val |-> x]

Err(e) == [ok |-> FALSE, err |-> e]

(***************************************************************************)
(* Paths.  A path string is a sequence of tokens: the separator "/" and    *)
(* names.  "/site/blog/" is <<"/", "site", "/", "blog", "/">>.             *)
(* std::path compares paths by components, never by characters.           *)
(***************************************************************************)
Sep == "/"

IsSep(t) == t = Sep

NotSep(t) == t # Sep

IsAbsolute(p) == Len(p) > 0 /\ p[1] = Sep

\* Path::components: the root (if any), then the names; repeated and trailing
\* separators and "." after the first component are dropped.
NotSepNorDot(t) == t # Sep /\ t # "."

Components(p) ==
    IF p = <<>> THEN <<>>
    ELSE IF IsAbsolute(p) THEN <<Sep>> \o SelectSeq(Tail(p), NotSepNorDot)
    ELSE <<p[1]>> \o SelectSeq(Tail(p), NotSepNorDot)

IsPrefixSeq(a, b) == Len(a) <= Len(b) /\ SubSeq(b, 1, Len(a)) = a

\* A mutant of starts_with: compares the first component only.
starts_with_first_only(p, base) ==
    LET cp == Components(p)
        cb == Components(base)
    IN  cb = <<>> \/ (cp # <<>> /\ cp[1] = cb[1])

\* Path::starts_with(base): base's components are a prefix of p's components.
starts_with(p, base) == IsPrefixSeq(Components(base), Components(p))

\* The names joined by separators: the path a component iterator stands for.
RECURSIVE JoinNames(_)
JoinNames(names) ==
    IF names = <<>> THEN <<>>
    ELSE IF Len(names) = 1 THEN <<names[1]>>
    ELSE <<names[1], Sep>> \o JoinNames(Tail(names))

\* Path::strip_prefix(base): the remaining components as a relative path.
strip_prefix(p, base) ==
    IF starts_with(p, base)
    THEN Ok(JoinNames(SubSeq(Components(p), Len(Components(base)) + 1,
                             Len(Components(p)))))
    ELSE Err("StripPrefixError")

\* PathBuf::push(f): an absolute f replaces the path; otherwise f is appended
\* after a separator (none when the path is empty or ends in one).
push(p, f) ==
    IF IsAbsolute(f) THEN f
    ELSE IF p = <<>> THEN f
    ELSE IF p[Len(p)] = Sep THEN p \o f
    ELSE p \o <<Sep>> \o f

(***************************************************************************)
(* The file system the invocations run in: its directories (as component   *)
(* sequences) and one symbolic link, /link -> /site.                       *)
(***************************************************************************)
ExistingDirs ==
    { <<Sep>>,
      <<Sep, "site">>,
      <<Sep, "site", "blog">>,
      <<Sep, "site", "blog", "a">>,
      <<Sep, "site2">> }

ResolveLinks(comps) ==
    IF Len(comps) >= 2 /\ comps[2] = "link"
    THEN <<Sep, "site">> \o SubSeq(comps, 3, Len(comps))
    ELSE comps

DropCurDir(comps) ==
    IF comps # <<>> /\ comps[1] = "." THEN Tail(comps) ELSE comps

AbsString(comps) == <<Sep>> \o JoinNames(Tail(comps))

\* fs::canonicalize(path): the absolute, link-free form of an existing path;
\* an error when the path does not exist.
canonicalize(path, cwd) ==
    LET comps == Components(path)
        full  == IF IsAbsolute(path) THEN comps
                 ELSE Components(cwd) \o DropCurDir(comps)
        real  == ResolveLinks(full)
    IN  IF real \in ExistingDirs THEN Ok(AbsString(real)) ELSE Err("NotFound")

\* path.canonicalize().unwrap_or(path)
CanonicalOrRaw(path, cwd) ==
    LET c == canonicalize(path, cwd) IN IF c.ok THEN c.val ELSE path

(***************************************************************************)
(* Directory listings.  A file name is a sequence of characters.           *)
(***************************************************************************)
LowerChar(c) ==
    CASE c = "H" -> "h"
      [] c = "T" -> "t"
      [] c = "M" -> "m"
      [] c = "L" -> "l"
      [] c = "A" -> "a"
      [] OTHER -> c

to_lowercase(name) == [k \in 1..Len(name) |-> LowerChar(name[k])]

ends_with(name, suffix) ==
    /\ Len(suffix) <= Len(name)
    /\ SubSeq(name, Len(name) - Len(suffix) + 1, Len(name)) = suffix

DotHtml == <<".", "h", "t", "m", "l">>

DotHtm == <<".", "h", "t", "m">>

IndexHtml == <<"i", ".", "h", "t", "m", "l">>

UpperHtm == <<"A", ".", "H", "T", "M">>

MixedHtml == <<"b", ".", "H", "t", "m", "L">>

NotesTxt == <<"n", ".", "t", "x", "t">>

BareHtml == <<"h", "t", "m", "l">>

HtmlBak == <<"a", ".", "h", "t", "m", "l", ".", "b">>

Htmx == <<"a", ".", "h", "t", "m", "x">>

\* The listings a current directory can have; "unreadable" is a directory
\* fs::read_dir fails on.
ListingNames == {"none", "text", "html", "upper", "unreadable"}

Listing(k) ==
    CASE k = "none" -> {}
      [] k = "text" -> {NotesTxt, BareHtml, HtmlBak, Htmx}
      [] k = "html" -> {IndexHtml, NotesTxt}
      [] k = "upper" -> {UpperHtm, MixedHtml, Htmx}
      [] OTHER -> {}

ReadDirOk(k) == k # "unreadable"

\* A mutant of has_html_files: any entry counts.
has_html_files_any_entry(k) == ReadDirOk(k) /\ Listing(k) # {}

has_html_files(k) ==
    /\ ReadDirOk(k)
    /\ \E name \in Listing(k) :
          LET n == to_lowercase(name)
          IN  ends_with(n, DotHtml) \/ ends_with(n, DotHtm)

(***************************************************************************)
(* State.                                                                  *)
(*   inv        per invocation slot: the position in main(), the arguments *)
(*              and locals, and a record of what the invocation has done   *)
(*   listening  port -> pid of the process listening on it, or NoPid       *)
(*   starting   background children spawned and not yet bound              *)
(*   lsofOk     whether the lsof utility can be run                        *)
(*   entries    the listing of the invocation's current directory          *)
(*   scope      which inputs the invocations draw from (never changes)     *)
(***************************************************************************)
VARIABLES inv, listening, starting, lsofOk, entries, scope

vars == <<inv, listening, starting, lsofOk, entries, scope>>

world == <<listening, starting, lsofOk, entries, scope>>

ActiveSlots == IF scope = "race" THEN Slots ELSE {1}

(***************************************************************************)
(* Command lines (struct Args, lines 32-70) and the process environment.   *)
(***************************************************************************)
SiteStr == <<Sep, "site">>

SiteSlashStr == <<Sep, "site", Sep>>

LinkStr == <<Sep, "link">>

BlogStr == <<Sep, "site", Sep, "blog">>

DeepStr == <<Sep, "site", Sep, "blog", Sep, "a">>

Site2Str == <<Sep, "site2">>

GoneStr == <<Sep, "gone">>

DotStr == <<".">>

PostHtml == <<"post.html">>

AbsPostHtml == <<Sep, "post.html">>

SiteHomeArgs == {None, Some(SiteStr), Some(SiteSlashStr), Some(LinkStr),
                 Some(BlogStr), Some(DotStr), Some(GoneStr)}

EnvSiteHomes == {None, Some(SiteStr)}

CurrentDirs == {SiteStr, BlogStr, DeepStr, Site2Str}

Filenames == {None, Some(PostHtml), Some(AbsPostHtml)}

PathInput(f, r, e, d) ==
    [filename |-> f, site_home |-> r, env_site_home |-> e, current_dir |-> d]

\* Every combination, for the claims about the path mapping.
WidePathInputs ==
    { PathInput(f, r, e, d) :
        f \in Filenames, r \in SiteHomeArgs, e \in EnvSiteHomes, d \in CurrentDirs }

\* One input per outcome of the path mapping, for the claims about the lifecycle.
NarrowPathInputs ==
    { PathInput(None, None, None, BlogStr),
      PathInput(Some(PostHtml), Some(SiteStr), None, BlogStr),
      PathInput(Some(PostHtml), None, None, BlogStr),
      PathInput(None, Some(SiteStr), None, Site2Str) }

PathInputs == IF scope = "paths" THEN WidePathInputs ELSE NarrowPathInputs

\* The listings the current directory takes: one with and one without HTML
\* files for the claims about the path mapping, all of them otherwise.
Listings ==
    IF scope \in {"paths", "serve", "race"} THEN {"html", "text"} ELSE ListingNames

Flags == [exit : BOOLEAN, foreground : BOOLEAN, menu : BOOLEAN, prompt : BOOLEAN]

\* The first invocation takes every input; an invocation that runs beside it
\* is `hopen` with no flags and no site root.
NoFlags == [exit |-> FALSE, foreground |-> FALSE, menu |-> FALSE, prompt |-> FALSE]

FlagsOf(i) == IF i = 1 THEN Flags ELSE {NoFlags}

PathInputsOf(i) == IF i = 1 THEN PathInputs ELSE {PathInput(None, None, None, BlogStr)}

(***************************************************************************)
(* PortProbe: lines 423-467.                                               *)
(***************************************************************************)
\* What `lsof -t -i:port -sTCP:LISTEN` prints: the pids listening on the port.
LsofListeners(port) ==
    IF listening[port] = NoPid THEN <<>> ELSE <<listening[port]>>

\* TcpListener::bind(("127.0.0.1", port)).is_err()
BindFails(port) == listening[port] # NoPid

is_port_in_use(port) ==
    IF lsofOk THEN LsofListeners(port) # <<>> ELSE BindFails(port)

get_pid_on_port(port) ==
    IF ~lsofOk THEN None
    ELSE IF LsofListeners(port) = <<>> THEN None
    ELSE Some(LsofListeners(port)[1])

RECURSIVE ScanFree(_, _)
ScanFree(port, last) ==
    IF port > last THEN Err("NoPortAvailable")
    ELSE IF ~is_port_in_use(port) THEN Ok(port)
    ELSE ScanFree(port + 1, last)

\* A mutant of find_available_port: the range excludes MAX_PORT.
find_available_port_exclusive(start_port) == ScanFree(start_port, MAX_PORT - 1)

find_available_port(start_port) == ScanFree(start_port, MAX_PORT)

RECURSIVE ScanExisting(_)
ScanExisting(port) ==
    IF port > MAX_PORT THEN None
    ELSE IF is_port_in_use(port) /\ get_pid_on_port(port).some
         THEN Some(<<get_pid_on_port(port).val, port>>)
    ELSE ScanExisting(port + 1)

find_existing_server == ScanExisting(DEFAULT_PORT)

(***************************************************************************)
(* One invocation.  The fields up to `bound` are the arguments and locals  *)
(* of main() and start_server(); the rest records what the invocation has  *)
(* done: whether the last HTML check passed, whether it probed a port and  *)
(* scanned for a server, the pids it signalled, the children it spawned,   *)
(* the URLs it handed to the browser and the messages it printed.          *)
(***************************************************************************)
NoCall == [root |-> <<>>, port |-> NoPid, url_port |-> NoPid, url_path |-> <<>>,
           prompt |-> FALSE, foreground |-> FALSE]

IdleInv ==
    [pc |-> "idle", pid |-> NoPid,
     args |-> [filename |-> None, site_home |-> None, exit |-> FALSE,
               foreground |-> FALSE, menu |-> FALSE, prompt |-> FALSE],
     env_site_home |-> None, current_dir |-> <<>>,
     site_home |-> None, server_dir |-> <<>>, url_path |-> <<>>,
     port |-> NoPid, existing_server |-> None, call |-> NoCall,
     choice |-> "", child |-> NoPid, log_file |-> NoPid, task |-> FALSE,
     bound |-> FALSE,
     exit_code |-> -1, html_ok |-> FALSE, probed |-> FALSE, scanned |-> FALSE,
     killed |-> {},
     spawned |-> {}, browser |-> {}, reports |-> {}]

Finish(r, code, report) ==
    [r EXCEPT !.pc = "done", !.exit_code = code, !.reports = @ \cup {report}]

Url(port, path) == [port |-> port, path |-> path]

Running(r) == r.pc \notin {"idle", "done"}

RunningPids ==
    {listening[p] : p \in Ports} \cup {c.pid : c \in starting}
        \cup {inv[i].pid : i \in {j \in Slots : Running(inv[j])}}

FreePids == Pids \ (RunningPids \cup {NoPid})

\* The pid of the next process: the least unused one (a pid is reused once free).
NextPid == CHOOSE p \in FreePids : \A q \in FreePids : p <= q

(***************************************************************************)
(* main(), lines 130-188: site home, validation and the path mapping.      *)
(***************************************************************************)
\* Lines 133-140: -r, else HOPEN_SITE_HOME, canonicalized when it exists.
ResolveSiteHome(site_home_arg, env_site_home, current_dir) ==
    LET given == IF site_home_arg.some THEN site_home_arg ELSE env_site_home
    IN  IF given.some THEN Some(CanonicalOrRaw(given.val, current_dir)) ELSE None

\* A mutant of FilenameRequiresRoot: the validation is missing.
FilenameRequiresRoot_missing(filename, site_home) == FALSE

\* Line 143.
FilenameRequiresRoot(filename, site_home) == filename.some /\ ~site_home.some

\* Lines 154-188: (server_dir, url_path), or the exit of line 164.
PathMapping(site_home, current_dir, filename) ==
    IF site_home.some
    THEN IF ~starts_with(current_dir, site_home.val)
         THEN Err("NotUnderRoot")
         ELSE LET stripped == strip_prefix(current_dir, site_home.val)
                  relative == IF stripped.ok THEN stripped.val ELSE <<>>
                  url      == IF filename.some THEN push(relative, filename.val)
                              ELSE relative
              IN  Ok([server_dir |-> site_home.val, url_path |-> url])
    ELSE Ok([server_dir |-> current_dir,
             url_path |-> IF filename.some THEN filename.val ELSE <<>>])

\* Lines 235-239.
url_path_str(url_path) == IF url_path = <<>> THEN <<>> ELSE <<Sep>> \o url_path

(***************************************************************************)
(* ProcessController: kill_process, lines 491-503.  The process-table kill *)
(* ignores whether the signal was delivered (may_signal: the process is    *)
(* this user's to signal); the fallback fails only when the kill command   *)
(* cannot be run.                                                          *)
(***************************************************************************)
kill_process(pid, may_signal, kill_cmd_runs) ==
    IF pid \in RunningPids
    THEN [res |-> Ok("killed"), delivered |-> may_signal]
    ELSE IF kill_cmd_runs
         THEN [res |-> Ok("fallback"), delivered |-> FALSE]
         ELSE [res |-> Err("KillCommand"), delivered |-> FALSE]

Delivered(k, pid) == IF k.delivered THEN {pid} ELSE {}

(***************************************************************************)
(* Initial states.                                                         *)
(***************************************************************************)
FirstPid(port) == port - DEFAULT_PORT + 1

Occupancies == { f \in [Ports -> Pids \cup {NoPid}] :
                   \A p \in Ports : f[p] \in {NoPid, FirstPid(p)} }

\* A background child of an earlier run that has not bound its port yet.
OrphanPid == PortSpan + 2

Orphans ==
    {{}} \cup { {[pid |-> OrphanPid, port |-> Some(p), dir |-> SiteStr]} : p \in Ports }

\* The program run by hand with --internal-serve, with or without a port.
InternalServes ==
    {{}} \cup { {[pid |-> OrphanPid, port |-> ip, dir |-> SiteStr]} :
                  ip \in {None, Some(MAX_PORT)} }

InitWorld(sc) ==
    /\ scope = sc
    /\ listening \in Occupancies
    /\ lsofOk \in BOOLEAN
    /\ entries \in Listings
    /\ starting \in (CASE sc = "race" -> Orphans
                        [] sc = "serve" -> InternalServes
                        [] OTHER -> {{}})
    /\ inv = [i \in Slots |-> IdleInv]

Init == InitWorld("lifecycle")

\* Wide path inputs over a narrow world: lsof runs, at most the first port is taken.
InitPaths ==
    /\ InitWorld("paths")
    /\ lsofOk
    /\ \A p \in Ports : p # DEFAULT_PORT => listening[p] = NoPid

\* Internal serve processes over a narrow world: lsof runs, at most the first
\* port is taken.
InitServe ==
    /\ InitWorld("serve")
    /\ lsofOk
    /\ \A p \in Ports : p # DEFAULT_PORT => listening[p] = NoPid

\* Invocations that run at the same time, over a narrow world: lsof runs, at
\* most the first port is taken, no child of an earlier run is starting.
InitRace ==
    /\ InitWorld("race")
    /\ lsofOk
    /\ starting = {}
    /\ \A p \in Ports : p # DEFAULT_PORT => listening[p] = NoPid

(***************************************************************************)
(* main(): one action per step.                                            *)
(***************************************************************************)
\* The program is run: Args::parse (line 112) and the process environment.
Begin(i) ==
    /\ i \in ActiveSlots
    /\ inv[i].pc = "idle"
    /\ \E pi \in PathInputsOf(i), fl \in FlagsOf(i) :
          inv' = [inv EXCEPT ![i] =
                    [IdleInv EXCEPT
                       !.pc = "resolve", !.pid = NextPid,
                       !.args = [filename |-> pi.filename,
                                 site_home |-> pi.site_home,
                                 exit |-> fl.exit, foreground |-> fl.foreground,
                                 menu |-> fl.menu, prompt |-> fl.prompt],
                       !.env_site_home = pi.env_site_home,
                       !.current_dir = pi.current_dir]]
    /\ UNCHANGED world

\* Lines 130-188.
ResolvePaths(i) ==
    /\ inv[i].pc = "resolve"
    /\ LET r  == inv[i]
           sh == ResolveSiteHome(r.args.site_home, r.env_site_home, r.current_dir)
           m  == PathMapping(sh, r.current_dir, r.args.filename)
       IN  inv' = [inv EXCEPT ![i] =
                     IF FilenameRequiresRoot(r.args.filename, sh)
                     THEN Finish([r EXCEPT !.site_home = sh], 1, "FilenameRequiresRoot")
                     ELSE IF ~m.ok
                     THEN Finish([r EXCEPT !.site_home = sh], 1, "NotUnderRoot")
                     ELSE [r EXCEPT !.pc = "check_html", !.site_home = sh,
                                    !.server_dir = m.val.server_dir,
                                    !.url_path = m.val.url_path]]
    /\ UNCHANGED world

\* Lines 193-208.
CheckHtml(i) ==
    /\ inv[i].pc = "check_html"
    /\ inv' = [inv EXCEPT ![i] =
                 IF has_html_files(entries)
                 THEN [@ EXCEPT !.pc = "find_port", !.html_ok = TRUE]
                 ELSE Finish(@, 1, "NoHtmlFiles")]
    /\ UNCHANGED world

\* Line 213.
FindPort(i) ==
    /\ inv[i].pc = "find_port"
    /\ LET r    == [inv[i] EXCEPT !.probed = TRUE]
           port == find_available_port(DEFAULT_PORT)
       IN  inv' = [inv EXCEPT ![i] =
                     IF port.ok
                     THEN [r EXCEPT !.pc = "find_existing", !.port = port.val]
                     ELSE Finish(r, 1, "NoPortAvailable")]
    /\ UNCHANGED world

\* Line 216.
FindExisting(i) ==
    /\ inv[i].pc = "find_existing"
    /\ inv' = [inv EXCEPT ![i] =
                 [@ EXCEPT !.pc = "dispatch", !.probed = TRUE, !.scanned = TRUE,
                           !.existing_server = find_existing_server]]
    /\ UNCHANGED world

(***************************************************************************)
(* main(), lines 221-389: the exit flag, the existing server, a new server.*)
(***************************************************************************)
AtDispatch(i) == inv[i].pc = "dispatch"

HasExisting(i) == inv[i].existing_server.some

ExistingPid(i) == inv[i].existing_server.val[1]

ExistingPort(i) == inv[i].existing_server.val[2]

\* A mutant of ExistingUrl: the URL carries the free port of line 213.
ExistingUrl_free_port(i) == Url(inv[i].port, url_path_str(inv[i].url_path))

\* Line 245: full_url of the existing server.
ExistingUrl(i) == Url(ExistingPort(i), url_path_str(inv[i].url_path))

\* Line 347: full_url of a new server.
NewUrl(i) == Url(inv[i].port, url_path_str(inv[i].url_path))

\* The call start_server(root, port, url, prompt, foreground).
Call(root, port, url, prompt, foreground) ==
    [root |-> root, port |-> port, url_port |-> url.port, url_path |-> url.path,
     prompt |-> prompt, foreground |-> foreground]

\* open::that(url) and what the invocation prints; a failure is returned with `?`.
OpenBrowser(r, url, open_ok) ==
    LET s == [r EXCEPT !.browser = @ \cup {[url |-> url, ok |-> open_ok]}]
    IN  IF open_ok THEN Finish(s, 0, "BrowserOpened")
        ELSE Finish(s, 1, "BrowserOpenFailed")

\* A mutant of ExitFlag: the flag is ignored.
ExitFlag_ignored(i) == FALSE

\* Line 221.
ExitFlag(i) == inv[i].args.exit

\* Lines 221-232.
HandleExit(i) ==
    /\ AtDispatch(i)
    /\ ExitFlag(i)
    /\ \E may_signal \in BOOLEAN, kill_cmd_runs \in BOOLEAN :
          LET r == inv[i]
              k == kill_process(ExistingPid(i), may_signal, kill_cmd_runs)
          IN  inv' = [inv EXCEPT ![i] =
                        IF ~HasExisting(i) THEN Finish(r, 0, "NoServerRunning")
                        ELSE IF k.res.ok
                        THEN Finish([r EXCEPT !.killed = @ \cup Delivered(k, ExistingPid(i))],
                                    0, "ServerStopped")
                        ELSE Finish(r, 1, "KillFailed")]
    /\ UNCHANGED world

\* A mutant of ReuseExisting: a new server is started beside the one found.
ReuseExisting_starts(i) ==
    /\ AtDispatch(i)
    /\ ~ExitFlag(i)
    /\ HasExisting(i)
    /\ ~inv[i].args.menu
    /\ inv' = [inv EXCEPT ![i] =
                 [@ EXCEPT !.pc = "start_server",
                           !.call = Call(inv[i].server_dir, inv[i].port, NewUrl(i),
                                         inv[i].args.prompt, inv[i].args.foreground)]]
    /\ UNCHANGED world

\* Lines 244-257.
ReuseExisting(i) ==
    /\ AtDispatch(i)
    /\ ~ExitFlag(i)
    /\ HasExisting(i)
    /\ ~inv[i].args.menu
    /\ \E open_ok \in BOOLEAN :
          inv' = [inv EXCEPT ![i] =
                    OpenBrowser([@ EXCEPT !.reports = @ \cup {"Reusing"}],
                                ExistingUrl(i), open_ok)]
    /\ UNCHANGED world

AtExistingMenu(i) ==
    AtDispatch(i) /\ ~ExitFlag(i) /\ HasExisting(i) /\ inv[i].args.menu

\* Line 285: Select::prompt() fails (no terminal, or the prompt is interrupted).
MenuPromptFails(i) ==
    /\ AtDispatch(i)
    /\ ~ExitFlag(i)
    /\ inv[i].args.menu
    /\ inv' = [inv EXCEPT ![i] = Finish(@, 1, "PromptFailed")]
    /\ UNCHANGED world

\* Lines 288-294.
MenuOpenBrowser(i) ==
    /\ AtExistingMenu(i)
    /\ \E open_ok \in BOOLEAN :
          inv' = [inv EXCEPT ![i] =
                    OpenBrowser([@ EXCEPT !.choice = "OpenBrowser"],
                                ExistingUrl(i), open_ok)]
    /\ UNCHANGED world

\* Lines 295-298.
MenuQuitServer(i) ==
    /\ AtExistingMenu(i)
    /\ \E may_signal \in BOOLEAN, kill_cmd_runs \in BOOLEAN :
          LET r == [inv[i] EXCEPT !.choice = "QuitServer"]
              k == kill_process(ExistingPid(i), may_signal, kill_cmd_runs)
          IN  inv' = [inv EXCEPT ![i] =
                        IF k.res.ok
                        THEN Finish([r EXCEPT !.killed = @ \cup Delivered(k, ExistingPid(i))],
                                    0, "ServerStopped")
                        ELSE Finish(r, 1, "KillFailed")]
    /\ UNCHANGED world

\* A mutant of MenuQuitAndRestart: the restart waits on a delivered signal.
MenuQuitAndRestart_verified(i) ==
    /\ AtExistingMenu(i)
    /\ \E may_signal \in BOOLEAN :
          LET r == [inv[i] EXCEPT !.choice = "QuitAndRestart"]
          IN  inv' = [inv EXCEPT ![i] =
                        IF may_signal
                        THEN [r EXCEPT !.pc = "restart_check",
                                       !.killed = @ \cup {ExistingPid(i)},
                                       !.reports = @ \cup {"ServerStopped"},
                                       !.html_ok = FALSE]
                        ELSE Finish(r, 1, "KillFailed")]
    /\ UNCHANGED world

\* Lines 299-305: kill, then the settle delay.
MenuQuitAndRestart(i) ==
    /\ AtExistingMenu(i)
    /\ \E may_signal \in BOOLEAN, kill_cmd_runs \in BOOLEAN :
          LET r == [inv[i] EXCEPT !.choice = "QuitAndRestart"]
              k == kill_process(ExistingPid(i), may_signal, kill_cmd_runs)
          IN  inv' = [inv EXCEPT ![i] =
                        IF k.res.ok
                        THEN [r EXCEPT !.pc = "restart_check",
                                       !.killed = @ \cup Delivered(k, ExistingPid(i)),
                                       !.reports = @ \cup {"ServerStopped"},
                                       !.html_ok = FALSE]
                        ELSE Finish(r, 1, "KillFailed")]
    /\ UNCHANGED world

\* Lines 327-332.
RestartCheckHtml(i) ==
    /\ inv[i].pc = "restart_check"
    /\ inv' = [inv EXCEPT ![i] =
                 IF has_html_files(entries)
                 THEN [@ EXCEPT !.pc = "restart_find_port", !.html_ok = TRUE]
                 ELSE Finish(@, 1, "NoHtmlFiles")]
    /\ UNCHANGED world

\* A mutant of RestartFindPort: the restart uses the port of line 213.
RestartFindPort_first_port(i) ==
    /\ inv[i].pc = "restart_find_port"
    /\ inv' = [inv EXCEPT ![i] =
                 [@ EXCEPT !.pc = "start_server",
                           !.call = Call(inv[i].server_dir, inv[i].port, NewUrl(i),
                                         inv[i].args.prompt, inv[i].args.foreground)]]
    /\ UNCHANGED world

\* Lines 335-337.
RestartFindPort(i) ==
    /\ inv[i].pc = "restart_find_port"
    /\ LET r        == inv[i]
           new_port == find_available_port(DEFAULT_PORT)
       IN  inv' = [inv EXCEPT ![i] =
                     IF new_port.ok
                     THEN [r EXCEPT !.pc = "start_server",
                                    !.call = Call(r.server_dir, new_port.val,
                                                  Url(new_port.val, url_path_str(r.url_path)),
                                                  r.args.prompt, r.args.foreground)]
                     ELSE Finish(r, 1, "NoPortAvailable")]
    /\ UNCHANGED world

\* A mutant of MenuCancel: cancel stops the server as quit does.
MenuCancel_kills(i) ==
    /\ AtExistingMenu(i)
    /\ inv' = [inv EXCEPT ![i] =
                 Finish([@ EXCEPT !.choice = "Cancel",
                                  !.killed = @ \cup {ExistingPid(i)}], 0, "Cancelled")]
    /\ UNCHANGED world

\* Lines 339-341.
MenuCancel(i) ==
    /\ AtExistingMenu(i)
    /\ inv' = [inv EXCEPT ![i] = Finish([@ EXCEPT !.choice = "Cancel"], 0, "Cancelled")]
    /\ UNCHANGED world

AtStartupMenu(i) ==
    AtDispatch(i) /\ ~ExitFlag(i) /\ ~HasExisting(i) /\ inv[i].args.menu

\* A mutant of MenuStart: the mode is the one of the foreground flag.
MenuStart_flag_mode(i) ==
    /\ AtStartupMenu(i)
    /\ \E foreground \in BOOLEAN :
          inv' = [inv EXCEPT ![i] =
                    [@ EXCEPT !.pc = "start_server",
                              !.choice = IF foreground THEN "StartForeground"
                                         ELSE "StartBackground",
                              !.call = Call(inv[i].server_dir, inv[i].port, NewUrl(i),
                                            inv[i].args.prompt, inv[i].args.foreground)]]
    /\ UNCHANGED world

\* Lines 375-380: the startup menu chooses the mode.
MenuStart(i) ==
    /\ AtStartupMenu(i)
    /\ \E foreground \in BOOLEAN :
          inv' = [inv EXCEPT ![i] =
                    [@ EXCEPT !.pc = "start_server",
                              !.choice = IF foreground THEN "StartForeground"
                                         ELSE "StartBackground",
                              !.call = Call(inv[i].server_dir, inv[i].port, NewUrl(i),
                                            inv[i].args.prompt, foreground)]]
    /\ UNCHANGED world

\* Lines 381-383.
MenuStartupCancel(i) ==
    /\ AtStartupMenu(i)
    /\ inv' = [inv EXCEPT ![i] = Finish([@ EXCEPT !.choice = "Cancel"], 0, "Cancelled")]
    /\ UNCHANGED world

\* Lines 385-388.
StartDirect(i) ==
    /\ AtDispatch(i)
    /\ ~ExitFlag(i)
    /\ ~HasExisting(i)
    /\ ~inv[i].args.menu
    /\ inv' = [inv EXCEPT ![i] =
                 [@ EXCEPT !.pc = "start_server",
                           !.call = Call(inv[i].server_dir, inv[i].port, NewUrl(i),
                                         inv[i].args.prompt, inv[i].args.foreground)]]
    /\ UNCHANGED world

(***************************************************************************)
(* start_server, lines 527-646, and run_server, lines 506-524.             *)
(***************************************************************************)
AtStart(i) == inv[i].pc = "start_server"

CallUrl(i) == Url(inv[i].call.url_port, inv[i].call.url_path)

\* Lines 539-541: the root has been removed in the meantime.
StartRootMissing(i) ==
    /\ AtStart(i)
    /\ inv' = [inv EXCEPT ![i] = Finish(@, 1, "RootMissing")]
    /\ UNCHANGED world

\* Lines 543-569: foreground; with -p the answer is read and the browser opened
\* before the server runs, otherwise the browser is opened by a deferred task.
StartForeground(i) ==
    /\ AtStart(i)
    /\ inv[i].call.foreground
    /\ \E answer \in BOOLEAN, open_ok \in BOOLEAN :
          LET r == inv[i]
              tried == [r EXCEPT !.browser = @ \cup {[url |-> CallUrl(i), ok |-> open_ok]}]
          IN  inv' = [inv EXCEPT ![i] =
                        IF ~r.call.prompt
                        THEN [r EXCEPT !.pc = "fg_run", !.task = TRUE,
                                       !.reports = @ \cup {"BrowserOpened"}]
                        ELSE IF ~answer THEN [r EXCEPT !.pc = "fg_run"]
                        ELSE IF open_ok
                        THEN [tried EXCEPT !.pc = "fg_run",
                                           !.reports = @ \cup {"BrowserOpened"}]
                        ELSE Finish(tried, 1, "BrowserOpenFailed")]
    /\ UNCHANGED world

\* Lines 562-567: the deferred task opens the browser; a failure is printed.
FgBrowserTask(i) ==
    /\ inv[i].pc = "fg_run"
    /\ inv[i].task
    /\ \E open_ok \in BOOLEAN :
          inv' = [inv EXCEPT ![i] =
                    [@ EXCEPT !.task = FALSE,
                              !.pc = IF inv[i].bound THEN "serving" ELSE "fg_run",
                              !.browser = @ \cup {[url |-> CallUrl(i), ok |-> open_ok]},
                              !.reports = IF open_ok THEN @
                                          ELSE @ \cup {"BrowserOpenLogged"}]]
    /\ UNCHANGED world

\* Lines 576 and 518-521: the invocation's own process binds the port and
\* serves; warp panics when the address cannot be bound.
FgBind(i) ==
    /\ inv[i].pc = "fg_run"
    /\ ~inv[i].bound
    /\ LET r == inv[i]
           free == listening[r.call.port] = NoPid
       IN  /\ inv' = [inv EXCEPT ![i] =
                        IF free
                        THEN [r EXCEPT !.bound = TRUE,
                                       !.pc = IF r.task THEN "fg_run" ELSE "serving"]
                        ELSE Finish(r, 101, "BindFailed")]
           /\ listening' = IF free THEN [listening EXCEPT ![r.call.port] = r.pid]
                           ELSE listening
    /\ UNCHANGED <<starting, lsofOk, entries, scope>>

\* Lines 584-602: background; the program spawns itself with --internal-serve,
\* the log file is named after std::process::id().
StartBackground(i) ==
    /\ AtStart(i)
    /\ ~inv[i].call.foreground
    /\ LET r == inv[i]
           child == [pid |-> NextPid, port |-> Some(r.call.port), dir |-> r.call.root]
       IN     /\ inv' = [inv EXCEPT ![i] =
                           [r EXCEPT !.pc = "bg_wait", !.child = child.pid,
                                     !.log_file = r.pid,
                                     !.spawned = @ \cup {child}]]
              /\ starting' = starting \cup {child}
    /\ UNCHANGED <<listening, lsofOk, entries, scope>>

\* Lines 585, 597-600: the log file cannot be created or the spawn fails.
SpawnFails(i) ==
    /\ AtStart(i)
    /\ ~inv[i].call.foreground
    /\ inv' = [inv EXCEPT ![i] = Finish(@, 1, "SpawnFailed")]
    /\ UNCHANGED world

\* A mutant of BgVerify: the port is not looked at.
BgVerify_unverified(i) ==
    /\ inv[i].pc = "bg_wait"
    /\ \E open_ok \in BOOLEAN :
          inv' = [inv EXCEPT ![i] =
                    OpenBrowser([@ EXCEPT !.reports = @ \cup {"ServerStarted"}],
                                CallUrl(i), open_ok)]
    /\ UNCHANGED world

\* Lines 605-642: after the settle delay the port is probed once; then the
\* browser is opened, or with -p the answer is read first.
BgVerify(i) ==
    /\ inv[i].pc = "bg_wait"
    /\ \E answer \in BOOLEAN, open_ok \in BOOLEAN :
          LET r == [inv[i] EXCEPT !.probed = TRUE]
              started == [r EXCEPT !.reports = @ \cup {"ServerStarted"}]
          IN  inv' = [inv EXCEPT ![i] =
                        IF ~is_port_in_use(r.call.port)
                        THEN Finish(r, 1, "StartupFailed")
                        ELSE IF r.call.prompt /\ ~answer
                        THEN Finish(started, 0, "NotOpened")
                        ELSE OpenBrowser(started, CallUrl(i), open_ok)]
    /\ UNCHANGED world

\* A mutant of internal_port: the child looks for a free port.
internal_port_scanned(c) ==
    LET free == find_available_port(DEFAULT_PORT)
    IN  IF free.ok THEN free.val ELSE DEFAULT_PORT

\* Line 118: the port of an internal serve process.
internal_port(c) == IF c.port.some THEN c.port.val ELSE DEFAULT_PORT

\* main(), lines 117-125, in the spawned child, then run_server: the child
\* binds its port and serves its directory, or panics and exits.
ChildServe(c) ==
    /\ c \in starting
    /\ starting' = starting \ {c}
    /\ listening' = IF listening[internal_port(c)] = NoPid
                    THEN [listening EXCEPT ![internal_port(c)] = c.pid]
                    ELSE listening
    /\ UNCHANGED <<inv, lsofOk, entries, scope>>

(***************************************************************************)
(* The environment.                                                        *)
(***************************************************************************)
\* A listening process exits (signalled, interrupted or crashed).  When it is
\* an invocation serving in the foreground, that invocation is over (the
\* handler of lines 511-514 exits with code 0).
ServerExits(p) ==
    /\ listening[p] # NoPid
    /\ listening' = [listening EXCEPT ![p] = NoPid]
    /\ inv' = [i \in Slots |->
                 IF Running(inv[i]) /\ inv[i].pid = listening[p]
                 THEN Finish([inv[i] EXCEPT !.task = FALSE], 0, "Interrupted")
                 ELSE inv[i]]
    /\ UNCHANGED <<starting, lsofOk, entries, scope>>

\* The files of the current directory change.
FsChange(k) ==
    /\ k # entries
    /\ entries' = k
    /\ UNCHANGED <<inv, listening, starting, lsofOk, scope>>


Next ==
    \/ \E i \in Slots :
          \/ Begin(i)
          \/ ResolvePaths(i)
          \/ CheckHtml(i)
          \/ FindPort(i)
          \/ FindExisting(i)
          \/ HandleExit(i)
          \/ ReuseExisting(i)
          \/ MenuPromptFails(i)
          \/ MenuOpenBrowser(i)
          \/ MenuQuitServer(i)
          \/ MenuQuitAndRestart(i)
          \/ RestartCheckHtml(i)
          \/ RestartFindPort(i)
          \/ MenuCancel(i)
          \/ MenuStart(i)
          \/ MenuStartupCancel(i)
          \/ StartDirect(i)
          \/ StartRootMissing(i)
          \/ StartForeground(i)
          \/ FgBrowserTask(i)
          \/ FgBind(i)
          \/ StartBackground(i)
          \/ SpawnFails(i)
          \/ BgVerify(i)
    \/ \E c \in starting : ChildServe(c)
    \/ \E p \in Ports : ServerExits(p)
    \/ \E k \in Listings : FsChange(k)

Spec == Init /\ [][Next]_vars

SpecPaths == InitPaths /\ [][Next]_vars

SpecServe == InitServe /\ [][Next]_vars

SpecRace == InitRace /\ [][Next]_vars

(***************************************************************************)
(* Properties.  What the claims speak of is stated here on its own terms:  *)
(* the ports that are free, the names that are HTML files, the directory a *)
(* site root denotes.                                                      *)
(***************************************************************************)
Done(i) == inv[i].pc = "done"

\* Nothing has been probed, signalled, spawned, bound or opened.
Untouched(r) ==
    /\ ~r.probed
    /\ ~r.scanned
    /\ r.killed = {}
    /\ r.spawned = {}
    /\ ~r.bound
    /\ r.browser = {}

FreePorts == {p \in Ports : ~is_port_in_use(p)}

\* The step of invocation i that leaves position `at`.
Leaves(i, at) == inv[i].pc = at /\ inv'[i].pc # at

\* C1: each scan (line 213 and line 335) yields the smallest port of the range
\* that is_port_in_use reports free, and fails with NoPortAvailable exactly
\* when every port of the range is reported in use.
C1_SmallestFreePort ==
    [][\A i \in Slots :
          /\ Leaves(i, "find_port") =>
                IF FreePorts = {}
                THEN Done(i)' /\ "NoPortAvailable" \in inv'[i].reports
                ELSE /\ inv'[i].pc = "find_existing"
                     /\ inv'[i].port \in FreePorts
                     /\ \A q \in FreePorts : inv'[i].port <= q
          /\ Leaves(i, "restart_find_port") =>
                IF FreePorts = {}
                THEN Done(i)' /\ "NoPortAvailable" \in inv'[i].reports
                ELSE /\ inv'[i].pc = "start_server"
                     /\ inv'[i].call.port \in FreePorts
                     /\ \A q \in FreePorts : inv'[i].call.port <= q]_vars

\* The scan has passed over ports in use and returned the last port of the range.
C1_Witness ==
    /\ inv[1].pc = "find_existing"
    /\ inv[1].port = MAX_PORT
    /\ \A p \in Ports : p # MAX_PORT => listening[p] # NoPid

\* A server that was listening before the invocation began and still is.
EarlierServer(i) ==
    \E p \in Ports : listening[p] \notin {NoPid, inv[i].pid, inv[i].child}

\* C2: with a server already listening in the range, an invocation with neither
\* the menu flag nor the exit flag spawns no server and signals no process.
C2_Idempotent ==
    \A i \in Slots :
        (/\ inv[i].pc # "idle"
         /\ ~inv[i].args.exit
         /\ ~inv[i].args.menu
         /\ EarlierServer(i))
        => (inv[i].spawned = {} /\ ~inv[i].bound /\ inv[i].killed = {})

\* C3: an invocation with the exit flag, run where its validation passes and a
\* server occupies a port of the range, ends with that server signalled,
\* success reported and exit code 0, having spawned and opened nothing.
C3_ExitTerminates ==
    \A i \in Slots :
        (/\ Done(i)
         /\ inv[i].args.exit
         /\ inv[i].html_ok
         /\ EarlierServer(i))
        => (/\ inv[i].killed # {}
            /\ "ServerStopped" \in inv[i].reports
            /\ inv[i].exit_code = 0
            /\ inv[i].spawned = {}
            /\ inv[i].browser = {})

\* The invocation has the exit flag and its scan found no server.
ExitFoundNone(i) ==
    inv[i].args.exit /\ inv[i].scanned /\ ~inv[i].existing_server.some

\* C4 (Scenario D): an invocation with the exit flag whose scan finds no server
\* signals and spawns nothing, and ends with exit code 0 and the report that no
\* server is running.
C4_ExitNoServer ==
    \A i \in Slots :
        ExitFoundNone(i) =>
            /\ inv[i].killed = {}
            /\ inv[i].spawned = {}
            /\ ~inv[i].bound
            /\ inv[i].browser = {}
            /\ inv[i].pc \in {"dispatch", "done"}
            /\ Done(i) => (inv[i].exit_code = 0 /\ "NoServerRunning" \in inv[i].reports)

C4_Witness ==
    Done(1) /\ ExitFoundNone(1) /\ "NoServerRunning" \in inv[1].reports

\* The names that end in .htm or .html, whatever the case of the letters.
HtmlFileNames == {IndexHtml, UpperHtm, MixedHtml}

DirHasHtmlFile(k) == ReadDirOk(k) /\ Listing(k) \cap HtmlFileNames # {}

Started(r) ==
    r.pc \in {"start_server", "fg_run", "bg_wait", "serving"} \/ r.spawned # {} \/ r.bound

\* C5 (Scenario C): when the current directory holds no name ending in .htm or
\* .html, the HTML check ends the invocation non-zero with no port probed and
\* no process spawned or signalled; and no invocation is at or past
\* start_server unless its latest HTML check passed.
C5_NoHtmlNoStart ==
    [][\A i \in Slots :
          /\ (Leaves(i, "check_html") /\ ~DirHasHtmlFile(entries)) =>
                /\ Done(i)'
                /\ inv'[i].exit_code # 0
                /\ ~inv'[i].probed
                /\ inv'[i].spawned = {} /\ inv'[i].killed = {}
          /\ (Leaves(i, "restart_check") /\ ~DirHasHtmlFile(entries)) =>
                /\ Done(i)'
                /\ inv'[i].exit_code # 0
                /\ inv'[i].spawned = {}
          /\ Started(inv'[i]) => inv'[i].html_ok]_vars

\* The check has stopped an invocation in a directory of other files.
C5_Witness ==
    /\ Done(1)
    /\ "NoHtmlFiles" \in inv[1].reports
    /\ ~inv[1].probed
    /\ entries = "text"

\* A filename is given and no site root, neither by -r nor by HOPEN_SITE_HOME.
FilenameNoRoot(r) ==
    r.args.filename.some /\ ~r.args.site_home.some /\ ~r.env_site_home.some

\* C6: a filename without a site root is a validation error: whatever the
\* flags, the invocation ends non-zero with FilenameRequiresRoot and has
\* probed, signalled, spawned and opened nothing.
C6_FilenameRequiresRoot ==
    \A i \in Slots :
        (inv[i].pc # "idle" /\ FilenameNoRoot(inv[i])) =>
            /\ inv[i].pc \in {"resolve", "done"}
            /\ Untouched(inv[i])
            /\ Done(i) => (inv[i].exit_code # 0
                           /\ "FilenameRequiresRoot" \in inv[i].reports)

C6_Witness ==
    /\ Done(1)
    /\ FilenameNoRoot(inv[1])
    /\ inv[1].exit_code = 1
    /\ inv[1].args.menu /\ inv[1].args.exit

(***************************************************************************)
(* The directories the path strings denote, as the names from the root of  *)
(* the file system (/link is a link to /site, /gone does not exist).       *)
(***************************************************************************)
Denoted(path, cwd) ==
    CASE path \in {SiteStr, SiteSlashStr, LinkStr} -> <<"site">>
      [] path = BlogStr -> <<"site", "blog">>
      [] path = DeepStr -> <<"site", "blog", "a">>
      [] path = Site2Str -> <<"site2">>
      [] path = GoneStr -> <<"gone">>
      [] path = DotStr ->
            (CASE cwd = SiteStr -> <<"site">>
               [] cwd = BlogStr -> <<"site", "blog">>
               [] cwd = DeepStr -> <<"site", "blog", "a">>
               [] OTHER -> <<"site2">>)
      [] OTHER -> <<"?">>

GivenRoot(r) == IF r.args.site_home.some THEN r.args.site_home ELSE r.env_site_home

RootDir(r) == Denoted(GivenRoot(r).val, r.current_dir)

CwdDir(r) == Denoted(r.current_dir, r.current_dir)

\* The current directory is the site root or a descendant of it.
UnderRoot(r) == GivenRoot(r).some /\ IsPrefixSeq(RootDir(r), CwdDir(r))

\* The names that lead from the site root to the current directory.
Between(r) == SubSeq(CwdDir(r), Len(RootDir(r)) + 1, Len(CwdDir(r)))

Names(path) == SelectSeq(path, NotSep)

FileNames(r) == IF r.args.filename.some THEN Names(r.args.filename.val) ELSE <<>>

Resolved(r) == r.pc \notin {"idle", "resolve"}

\* C7: with the current directory at depth d under the site root, the url path
\* is the d names from the site root to the current directory, in order, then
\* the filename if one is given (Scenario A: blog/post.html).
C7_UrlPathSegments ==
    \A i \in Slots :
        (Resolved(inv[i]) /\ UnderRoot(inv[i])) =>
            /\ "NotUnderRoot" \notin inv[i].reports
            /\ Names(inv[i].url_path) = Between(inv[i]) \o FileNames(inv[i])

\* C8: with a site root set and the current directory neither the root nor a
\* descendant of it, the invocation ends with NotUnderRoot and exit code 1, has
\* no url path and has probed, signalled, spawned and opened nothing.
C8_NotUnderRoot ==
    \A i \in Slots :
        (Resolved(inv[i]) /\ GivenRoot(inv[i]).some /\ ~UnderRoot(inv[i])) =>
            /\ Done(i)
            /\ inv[i].exit_code = 1
            /\ "NotUnderRoot" \in inv[i].reports
            /\ inv[i].url_path = <<>>
            /\ inv[i].server_dir = <<>>
            /\ Untouched(inv[i])

\* /site is an ancestor of the root /site/blog, not a descendant.
C8_Witness ==
    /\ Done(1)
    /\ inv[1].current_dir = SiteStr
    /\ inv[1].args.site_home = Some(BlogStr)
    /\ "NotUnderRoot" \in inv[1].reports

\* The servers the invocation has launched: its children and itself.
Launches(r) ==
    {[dir |-> c.dir, port |-> c.port.val] : c \in r.spawned}
        \cup (IF r.bound THEN {[dir |-> r.call.root, port |-> r.call.port]} ELSE {})

\* The file a url path denotes under a served directory.
ServedFile(dir, url_path) == Names(dir) \o Names(url_path)

\* C9: every server is launched on the site root when one is set and on the
\* current directory otherwise, on the port of the reported URL, and the
\* reported URL resolved against the served directory is the file
\* <current directory>/<filename>.
C9_RoundTrip ==
    \A i \in Slots :
        \A l \in Launches(inv[i]) :
            /\ Names(l.dir) = IF GivenRoot(inv[i]).some THEN RootDir(inv[i])
                              ELSE CwdDir(inv[i])
            /\ l.port = inv[i].call.url_port
            /\ ServedFile(l.dir, inv[i].call.url_path)
                  = CwdDir(inv[i]) \o FileNames(inv[i])

\* The scan found a server and the menu flag is not set.
FoundNoMenu(r) == r.scanned /\ r.existing_server.some /\ ~r.args.menu

\* The one URL handed to the browser: the existing server's port, the url path
\* of this invocation.
ReusedUrl(r) ==
    [port |-> r.existing_server.val[2],
     path |-> IF r.url_path = <<>> THEN <<>> ELSE <<Sep>> \o r.url_path]

OnlyReused(r) ==
    /\ r.browser \in {{[url |-> ReusedUrl(r), ok |-> ok]} : ok \in BOOLEAN}
    /\ r.spawned = {}
    /\ r.killed = {}
    /\ ~r.bound

\* C10 as stated: whenever a server is found and the menu flag is not set, the
\* invocation opens the browser at the existing server's port and ends.
C10_AsStated ==
    \A i \in Slots : (Done(i) /\ FoundNoMenu(inv[i])) => OnlyReused(inv[i])

\* C10, amended: when a server is found and neither the menu flag nor the exit
\* flag is set, the invocation hands the browser one URL, with the existing
\* server's port and the url path of its own path mapping, and ends having
\* signalled and spawned nothing.
C10_Reuse ==
    \A i \in Slots :
        (FoundNoMenu(inv[i]) /\ ~inv[i].args.exit) =>
            /\ inv[i].pc \in {"dispatch", "done"}
            /\ inv[i].pc = "dispatch" => inv[i].browser = {}
            /\ Done(i) => OnlyReused(inv[i])

\* The free port of line 213 differs from the port of the server reused.
C10_Witness ==
    /\ Done(1)
    /\ FoundNoMenu(inv[1])
    /\ ~inv[1].args.exit
    /\ inv[1].port # inv[1].existing_server.val[2]
    /\ inv[1].url_path # <<>>
    /\ OnlyReused(inv[1])

\* The step in which invocation i reports `what` for the first time.
Reports(i, what) == what \notin inv[i].reports /\ what \in inv'[i].reports

\* C11: choosing cancel in the existing-server menu or in the startup menu ends
\* the invocation with code 0 and has no side effects: it has signalled no
\* process, spawned no server, bound no port and opened no browser, and the
\* ports bound and the servers starting are what they were.
C11_CancelNoSideEffects ==
    [][\A i \in Slots :
          Reports(i, "Cancelled") =>
              /\ inv[i].pc = "dispatch" /\ inv[i].args.menu
              /\ inv'[i].pc = "done"
              /\ inv'[i].exit_code = 0
              /\ inv'[i].killed = {}
              /\ inv'[i].spawned = {}
              /\ ~inv'[i].bound
              /\ inv'[i].browser = {}
              /\ listening' = listening
              /\ starting' = starting]_vars

\* Cancel in the menu of an existing server: the server is still there.
C11_Witness ==
    /\ Done(1)
    /\ "Cancelled" \in inv[1].reports
    /\ HasExisting(1)
    /\ listening[ExistingPort(1)] = ExistingPid(1)

\* The invocation asked for the termination of the server it found and was
\* told that it succeeded.
ToldStopped(r) == "ServerStopped" \in r.reports

\* C12: the terminate operation returns success only when the termination
\* request was delivered to the target by the process-table kill or by the
\* external kill, and returns an error whenever neither delivered it: an
\* invocation that was told the server is stopped has signalled that server,
\* and one that was told the termination failed has signalled nothing.
C12_TerminateResult ==
    \A i \in Slots :
        /\ ToldStopped(inv[i]) => inv[i].killed = {ExistingPid(i)}
        /\ "KillFailed" \in inv[i].reports => inv[i].killed = {}

\* The invocation has started a server: its background child was seen bound to
\* the port, or the invocation itself bound the port in the foreground.
ServerWasStarted(r) == "ServerStarted" \in r.reports \/ r.bound

\* C13: in every start path (background or foreground, with or without
\* prompt), once the server has started, a browser that cannot be opened is
\* only logged: the invocation does not end with the error of the failed open.
C13_BrowserFailureLogged ==
    \A i \in Slots :
        ServerWasStarted(inv[i]) => "BrowserOpenFailed" \notin inv[i].reports

\* The invocation is in the restart flow, after the kill and the settle delay.
InRestart(r) == r.pc \in {"restart_check", "restart_find_port"}

\* C14: quit-and-restart runs in the order terminate, settle delay, HTML
\* re-check, port scan, start: the flow is entered by the step that terminates
\* the server found; nothing is spawned or bound during it; a failed re-check
\* ends it with exit code 1; the scan comes after a passed re-check, and the new
\* server is started on the port, and reported under the port, that this scan
\* found free, whatever port the invocation computed at its beginning.
C14_RestartOrder ==
    [][\A i \in Slots :
          /\ (~InRestart(inv[i]) /\ InRestart(inv'[i])) =>
                /\ AtExistingMenu(i)
                /\ Reports(i, "ServerStopped")
                /\ inv'[i].pc = "restart_check"
          /\ InRestart(inv'[i]) => inv'[i].spawned = {} /\ ~inv'[i].bound
          /\ Leaves(i, "restart_check") =>
                IF DirHasHtmlFile(entries)
                THEN inv'[i].pc = "restart_find_port"
                ELSE /\ inv'[i].pc = "done"
                     /\ inv'[i].exit_code = 1
                     /\ inv'[i].killed = inv[i].killed
                     /\ inv'[i].spawned = {}
          /\ Leaves(i, "restart_find_port") =>
                IF FreePorts = {}
                THEN inv'[i].pc = "done" /\ inv'[i].spawned = {}
                ELSE /\ inv'[i].pc = "start_server"
                     /\ inv'[i].call.port \in FreePorts
                     /\ \A p \in FreePorts : inv'[i].call.port <= p
                     /\ inv'[i].call.url_port = inv'[i].call.port
          /\ (inv[i].call # NoCall /\ ToldStopped(inv[i])) =>
                inv'[i].call = inv[i].call]_vars

\* The old server has gone and the restart uses its port, not the port that
\* was free when the invocation began.
C14_Witness ==
    /\ ToldStopped(inv[1])
    /\ inv[1].spawned # {}
    /\ inv[1].call.port # inv[1].port
    /\ inv[1].call.port = ExistingPort(1)

\* The step in which the user picks quit-and-restart in the menu.
PicksRestart(i) == inv[i].choice = "" /\ inv'[i].choice = "QuitAndRestart"

\* The server found is still bound to its port.
OldServerBound(i) == HasExisting(i) /\ listening[ExistingPort(i)] = ExistingPid(i)

PortBound(p) == listening[p] # NoPid

\* C16: after the background spawn and the settle delay the parent looks at the
\* selected port in one step.  When the port is not bound it reports
\* StartupFailed, with the log file it names, and exits with code 1, having
\* opened no browser; only when the port is bound does it report the start and
\* open the browser at the reported URL (with -p, after asking).
C16_StartupVerified ==
    [][\A i \in Slots :
          /\ inv'[i].pc = "bg_wait" => inv'[i].browser = {}
          /\ Leaves(i, "bg_wait") =>
                /\ inv'[i].pc = "done"
                /\ IF ~PortBound(inv[i].call.port)
                   THEN /\ "StartupFailed" \in inv'[i].reports
                        /\ "ServerStarted" \notin inv'[i].reports
                        /\ inv'[i].log_file # NoPid
                        /\ inv'[i].exit_code = 1
                        /\ inv'[i].browser = {}
                   ELSE /\ "ServerStarted" \in inv'[i].reports
                        /\ "StartupFailed" \notin inv'[i].reports
                        /\ \/ inv[i].call.prompt /\ inv'[i].browser = {}
                           \/ \E ok \in BOOLEAN :
                                 inv'[i].browser = {[url |-> CallUrl(i), ok |-> ok]}]_vars

\* The child had not bound the port when the parent looked.
C16_Witness ==
    /\ Done(1)
    /\ "StartupFailed" \in inv[1].reports
    /\ inv[1].spawned # {}
    /\ inv[1].browser = {}
    /\ inv[1].exit_code = 1

\* The ports of the range that are in use.
PortsInUse == {p \in Ports : PortBound(p)}

\* C17: the scan for an existing server yields the smallest port of the range
\* that is in use, with the pid of the process that owns it, and yields None
\* exactly when no port of the range is in use.
C17_FirstPortInUse ==
    [][\A i \in Slots :
          Leaves(i, "find_existing") =>
              IF PortsInUse = {}
              THEN inv'[i].existing_server = None
              ELSE \E p \in PortsInUse :
                      /\ \A q \in PortsInUse : p <= q
                      /\ inv'[i].existing_server = Some(<<listening[p], p>>)]_vars

\* C18: the log file of a background launch is keyed by the pid of the
\* background server: the file the parent names is the one named after the pid
\* of the child it spawned.
C18_LogKeyedByChild ==
    \A i \in Slots :
        inv[i].log_file # NoPid => inv[i].log_file = inv[i].child

\* The step in which invocation i hands a URL to the browser.
OpensBrowser(i) == inv'[i].browser # inv[i].browser

\* C19: in a foreground start the browser is opened only after the server has
\* bound its port, when it is opened automatically and when the user is asked
\* first.
C19_BrowserAfterBind ==
    [][\A i \in Slots :
          (inv[i].call.foreground /\ OpensBrowser(i)) => inv[i].bound]_vars

\* The port an internal serve process is to serve: the one passed, else 8000.
PortToServe(c) == IF c.port = None THEN DEFAULT_PORT ELSE c.port.val

\* C20: a process started with the internal serve flag goes straight to
\* serving: in its one step it binds the port passed (8000 when none is
\* passed) if that port is free, whatever the current directory holds, and
\* changes nothing else: no other port, no signal, no browser, no further
\* process.  A process is spawned only by the background launch of an
\* invocation, one for each launch.
C20_OneLevelDeep ==
    [][/\ \A c \in starting :
             c \notin starting' =>
                /\ starting' = starting \ {c}
                /\ inv' = inv
                /\ entries' = entries
                /\ \A p \in Ports \ {PortToServe(c)} : listening'[p] = listening[p]
                /\ listening'[PortToServe(c)] =
                      IF PortBound(PortToServe(c)) THEN listening[PortToServe(c)]
                      ELSE c.pid
       /\ \A c \in starting' \ starting :
             /\ starting' = starting \cup {c}
             /\ \E i \in Slots :
                   /\ inv[i].pc = "start_server" /\ inv'[i].pc = "bg_wait"
                   /\ inv[i].spawned = {} /\ inv'[i].spawned = {c}
                   /\ c.pid = inv'[i].child
                   /\ c.port = Some(inv[i].call.port)
                   /\ c.dir = inv[i].call.root
                   /\ \A j \in Slots \ {i} : inv'[j] = inv[j]]_vars

\* An internal serve process without a port serves on 8000, and the child of
\* a background launch serves on the port it was passed.
C20_Witness ==
    /\ listening[DEFAULT_PORT] = OrphanPid
    /\ inv[1].child # NoPid
    /\ listening[inv[1].call.port] = inv[1].child

\* The step in which invocation i, having found no server, calls start_server.
StartsNew(i) == inv[i].pc = "dispatch" /\ inv'[i].pc = "start_server"

\* C21: when no existing server is found, without the menu flag the server is
\* started in the mode of the foreground flag; with the menu flag it is started
\* in the mode chosen in the startup menu, whatever the foreground flag; both
\* on the port that the scan of the invocation found, and reported under it.
\* A child is spawned only in background mode and the invocation binds the
\* port itself only in foreground mode.
C21_StartMode ==
    [][\A i \in Slots :
          /\ StartsNew(i) =>
                /\ ~HasExisting(i)
                /\ ~inv[i].args.exit
                /\ IF inv[i].args.menu
                   THEN /\ inv'[i].choice \in {"StartBackground", "StartForeground"}
                        /\ inv'[i].call.foreground = (inv'[i].choice = "StartForeground")
                   ELSE /\ inv'[i].choice = ""
                        /\ inv'[i].call.foreground = inv[i].args.foreground
                /\ inv'[i].call.port = inv[i].port
                /\ inv'[i].call.url_port = inv[i].port
                /\ inv'[i].call.root = inv[i].server_dir
          /\ inv'[i].spawned # {} => ~inv'[i].call.foreground
          /\ inv'[i].bound => inv'[i].call.foreground]_vars

\* The menu choice start background wins over the foreground flag.
C21_Witness ==
    /\ inv[1].args.menu
    /\ inv[1].args.foreground
    /\ inv[1].choice = "StartBackground"
    /\ ~HasExisting(1)
    /\ inv[1].spawned # {}
    /\ ~inv[1].bound

\* C22: under any interleaving of invocations and of their background
\* children, when an invocation reports its background server as started, with
\* the pid of its child and the port, the process listening on that port is
\* the child this invocation spawned.
C22_ReportedChildListens ==
    [][\A i \in Slots :
          Reports(i, "ServerStarted") =>
              /\ inv[i].child # NoPid
              /\ listening[inv[i].call.port] = inv[i].child
              /\ listening'[inv[i].call.port] = inv[i].child]_vars

\* kill_process has been called by the invocation.
Terminates(r) == ToldStopped(r) \/ "KillFailed" \in r.reports \/ r.killed # {}

\* The servers the invocation has started: its children, and itself in the
\* foreground.
ServersStarted(r) == Cardinality(r.spawned) + (IF r.bound THEN 1 ELSE 0)

\* C23: an invocation signals at most one process, the server it found, and
\* starts at most one server.  It terminates only under the exit flag or after
\* the menu choices quit server and quit-and-restart; it starts a server only
\* when it found none or after quit-and-restart; it does both only in
\* quit-and-restart, and there the termination comes before the start.
C23_OneKillOneStart ==
    [][\A i \in Slots :
          LET r == inv'[i]
          IN  /\ r.killed # {} =>
                    (r.existing_server.some /\ r.killed = {r.existing_server.val[1]})
              /\ ServersStarted(r) <= 1
              /\ Terminates(r) =>
                    \/ r.args.exit
                    \/ r.choice \in {"QuitServer", "QuitAndRestart"}
              /\ ServersStarted(r) = 1 =>
                    \/ ~r.existing_server.some
                    \/ r.choice = "QuitAndRestart"
              /\ (Terminates(r) /\ ServersStarted(r) = 1) =>
                    r.choice = "QuitAndRestart"
              /\ (~Terminates(inv[i]) /\ Terminates(r)) =>
                    (ServersStarted(inv[i]) = 0 /\ ServersStarted(r) = 0)
              /\ ServersStarted(inv[i]) = 1 =>
                    (r.killed = inv[i].killed /\ Terminates(r) = Terminates(inv[i]))]_vars

\* Quit-and-restart: the old server was signalled and a new one spawned.
C23_Witness ==
    /\ inv[1].choice = "QuitAndRestart"
    /\ inv[1].killed = {ExistingPid(1)}
    /\ Cardinality(inv[1].spawned) = 1

====
